---- MODULE Spec2Model ----
(***************************************************************************)
(* A model of scripts/convert_dcae_to_diffusers.py (the DC-AE checkpoint   *)
(* converter) and of the Sana transformer block of                         *)
(* src/diffusers/models/transformers/sana_transformer.py.                  *)
(*                                                                         *)
(* Keys are strings; Python's str.replace, the `in` substring test and the *)
(* insertion-ordered dict are modelled by what they do.                    *)
(***************************************************************************)
EXTENDS Integers, Sequences, FiniteSets, TLC

VARIABLES
  \* rename pass applied to one key, rule by rule (convert_vae, lines 107-111)
  r_key, new_key, ri, pass, first_key,
  \* get_state_dict on one raw mapping, one `if` per step (lines 59-67)
  u_saved, u_scope, u_step, u_err, u_first,
  \* the script: __main__ and convert_vae
  pc, args, dtype, variant, saved_dict, original_state_dict, keys, idx, error, vae, output,
  \* one call of get_vae_config, one branch test per step (lines 123-243)
  c_name, c_branch, config, c_result, c_err,
  \* one forward pass of a SanaTransformerBlock, for one element of the
  \* hidden-state tensor (lines 138-177)
  b_pc, has_attn2, scale_shift_table, timestep, gate_msa, gate_mlp, hidden_states,
  attn_output, ff_output, b_err,
  \* calls of SanaTransformer2DModel.forward on one model (lines 356-449)
  f_pc, f_call, f_dtype, f_cross, f_args, f_attention_mask, f_encoder_attention_mask,
  f_hidden_states, f_encoder_hidden_states, f_timestep, f_embedded_timestep, f_block,
  f_err, f_calls,
  \* one call of SanaTransformer2DModel.set_attn_processor (lines 322-354)
  p_pc, p_layers, p_before, p_given, p_processor, p_count, p_idx, p_err

renameVars == <<r_key, new_key, ri, pass, first_key>>
unwrapVars == <<u_saved, u_scope, u_step, u_err, u_first>>
scriptVars == <<pc, args, dtype, variant, saved_dict, original_state_dict, keys, idx, error,
                vae, output>>
configVars == <<c_name, c_branch, config, c_result, c_err>>
blockVars == <<b_pc, has_attn2, scale_shift_table, timestep, gate_msa, gate_mlp,
               hidden_states, attn_output, ff_output, b_err>>
forwardVars == <<f_pc, f_call, f_dtype, f_cross, f_args, f_attention_mask,
                 f_encoder_attention_mask, f_hidden_states, f_encoder_hidden_states,
                 f_timestep, f_embedded_timestep, f_block, f_err, f_calls>>
procVars == <<p_pc, p_layers, p_before, p_given, p_processor, p_count, p_idx, p_err>>
vars == <<renameVars, unwrapVars, scriptVars, configVars, blockVars, forwardVars, procVars>>

\* what the steps of one component leave alone: the other components
notRename == <<unwrapVars, scriptVars, configVars, blockVars, forwardVars, procVars>>
notUnwrap == <<renameVars, scriptVars, configVars, blockVars, forwardVars, procVars>>
notScript == <<renameVars, unwrapVars, configVars, blockVars, forwardVars, procVars>>
notConfig == <<renameVars, unwrapVars, scriptVars, blockVars, forwardVars, procVars>>
notBlock == <<renameVars, unwrapVars, scriptVars, configVars, forwardVars, procVars>>
notForward == <<renameVars, unwrapVars, scriptVars, configVars, blockVars, procVars>>
notProc == <<renameVars, unwrapVars, scriptVars, configVars, blockVars, forwardVars>>

(***************************************************************************)
(* Python string primitives.                                               *)
(***************************************************************************)

\* s[i-1:j], 1-based and inclusive; empty when i > j
Slice(s, i, j) == IF i > j THEN "" ELSE SubSeq(s, i, j)

\* s.find(p, i-1) + 1: the leftmost position >= i where p occurs in s, 0 if none
Find(s, p, i) ==
  LET M == { j \in i..(Len(s) - Len(p) + 1) : SubSeq(s, j, j + Len(p) - 1) = p }
  IN IF M = {} THEN 0 ELSE CHOOSE j \in M : \A h \in M : j <= h

\* `p in s` for strings
Contains(s, p) == Find(s, p, 1) # 0

\* s.count(p): non-overlapping occurrences, scanned left to right
RECURSIVE CountFrom(_, _, _)
CountFrom(s, p, i) ==
  LET j == Find(s, p, i)
  IN IF j = 0 THEN 0 ELSE 1 + CountFrom(s, p, j + Len(p))

Count(s, p) == CountFrom(s, p, 1)

\* s.replace(old, new): every non-overlapping occurrence, left to right, one scan
RECURSIVE ReplaceFrom(_, _, _, _)
ReplaceFrom(s, old, new, i) ==
  LET j == Find(s, old, i)
  IN IF j = 0 THEN Slice(s, i, Len(s))
     ELSE Slice(s, i, j - 1) \o new \o ReplaceFrom(s, old, new, j + Len(old))

Replace(s, old, new) == ReplaceFrom(s, old, new, 1)

(***************************************************************************)
(* The rename table, in the order the dict literal lists it.               *)
(***************************************************************************)

\* the table with a second doubling rule for "norm" after the first
VAE_KEYS_RENAME_DICT_Redoubled ==
  << <<"main.", "">>,
     <<"op_list.", "">>,
     <<"context_module", "attn">>,
     <<"local_module", "conv_out">>,
     <<"aggreg.0.0", "to_qkv_multiscale.0.proj_in">>,
     <<"aggreg.0.1", "to_qkv_multiscale.0.proj_out">>,
     <<"norm.", "norm.norm.">>,
     <<"depth_conv.conv", "conv_depth">>,
     <<"inverted_conv.conv", "conv_inverted">>,
     <<"point_conv.conv", "conv_point">>,
     <<"point_conv.norm", "norm">>,
     <<"conv.conv.", "conv.">>,
     <<"conv1.conv", "conv1">>,
     <<"conv2.conv", "conv2">>,
     <<"conv2.norm", "norm">>,
     <<"proj.conv", "proj_out">>,
     <<"proj.norm", "norm_out">>,
     <<"encoder.project_in.conv", "encoder.conv_in">>,
     <<"encoder.project_out.0.conv", "encoder.conv_out">>,
     <<"decoder.project_in.conv", "decoder.conv_in">>,
     <<"decoder.project_out.0", "decoder.norm_out.norm">>,
     <<".norm.", ".norm.norm.">> >>

\* the table with the "norm." rule rewriting to itself
VAE_KEYS_RENAME_DICT_NoDoubling ==
  << <<"main.", "">>,
     <<"op_list.", "">>,
     <<"context_module", "attn">>,
     <<"local_module", "conv_out">>,
     <<"aggreg.0.0", "to_qkv_multiscale.0.proj_in">>,
     <<"aggreg.0.1", "to_qkv_multiscale.0.proj_out">>,
     <<"norm.", "norm.">>,
     <<"depth_conv.conv", "conv_depth">>,
     <<"inverted_conv.conv", "conv_inverted">>,
     <<"point_conv.conv", "conv_point">>,
     <<"point_conv.norm", "norm">>,
     <<"conv.conv.", "conv.">>,
     <<"conv1.conv", "conv1">>,
     <<"conv2.conv", "conv2">>,
     <<"conv2.norm", "norm">>,
     <<"proj.conv", "proj_out">>,
     <<"proj.norm", "norm_out">>,
     <<"encoder.project_in.conv", "encoder.conv_in">>,
     <<"encoder.project_out.0.conv", "encoder.conv_out">>,
     <<"decoder.project_in.conv", "decoder.conv_in">>,
     <<"decoder.project_out.0", "decoder.norm_out.norm">>,
     <<"decoder.project_out.2.conv", "decoder.conv_out">> >>

VAE_KEYS_RENAME_DICT ==
  << <<"main.", "">>,
     <<"op_list.", "">>,
     <<"context_module", "attn">>,
     <<"local_module", "conv_out">>,
     <<"aggreg.0.0", "to_qkv_multiscale.0.proj_in">>,
     <<"aggreg.0.1", "to_qkv_multiscale.0.proj_out">>,
     <<"norm.", "norm.norm.">>,
     <<"depth_conv.conv", "conv_depth">>,
     <<"inverted_conv.conv", "conv_inverted">>,
     <<"point_conv.conv", "conv_point">>,
     <<"point_conv.norm", "norm">>,
     <<"conv.conv.", "conv.">>,
     <<"conv1.conv", "conv1">>,
     <<"conv2.conv", "conv2">>,
     <<"conv2.norm", "norm">>,
     <<"proj.conv", "proj_out">>,
     <<"proj.norm", "norm_out">>,
     <<"encoder.project_in.conv", "encoder.conv_in">>,
     <<"encoder.project_out.0.conv", "encoder.conv_out">>,
     <<"decoder.project_in.conv", "decoder.conv_in">>,
     <<"decoder.project_out.0", "decoder.norm_out.norm">>,
     <<"decoder.project_out.2.conv", "decoder.conv_out">> >>

NumRules == Len(VAE_KEYS_RENAME_DICT)

\* position of the "norm." rule in the table
NormRule == CHOOSE i \in 1..NumRules : VAE_KEYS_RENAME_DICT[i][1] = "norm."

\* one iteration of the inner loop, line 110
ApplyRule(k, i) ==
  Replace(k, VAE_KEYS_RENAME_DICT[i][1], VAE_KEYS_RENAME_DICT[i][2])

\* the inner loop, lines 108-110: rules i..NumRules applied to k in table order
RECURSIVE RenameFrom(_, _)
RenameFrom(k, i) ==
  IF i > NumRules THEN k
  ELSE LET replaced == ApplyRule(k, i)
       IN IF replaced = k THEN RenameFrom(k, i + 1) ELSE RenameFrom(replaced, i + 1)

RenameKey(k) == RenameFrom(k, 1)

(***************************************************************************)
(* Tensors, values and the insertion-ordered dict.                         *)
(* A value is a tensor or a mapping; a mapping is the sequence of its      *)
(* entries [k, v] in insertion order, keys unique.                         *)
(***************************************************************************)

NoTensor == [id |-> 0, shape |-> "none"]

TensorVal(t) == [kind |-> "tensor", t |-> t, m |-> <<>>]

MapVal(d) == [kind |-> "map", t |-> NoTensor, m |-> d]

NoVal == [kind |-> "none", t |-> NoTensor, m |-> <<>>]

Entry(k, v) == [k |-> k, v |-> v]

\* list(d.keys())
Keys(d) == [i \in 1..Len(d) |-> d[i].k]

KeySet(d) == { d[i].k : i \in 1..Len(d) }

\* k in d.keys()
HasKey(d, k) == k \in KeySet(d)

\* d[k], for a key d holds
Get(d, k) == d[CHOOSE i \in 1..Len(d) : d[i].k = k].v

\* d without the entry of key k (the dict after d.pop(k))
RECURSIVE DelKey(_, _)
DelKey(d, k) ==
  IF d = <<>> THEN <<>>
  ELSE IF Head(d).k = k THEN Tail(d)
  ELSE <<Head(d)>> \o DelKey(Tail(d), k)

\* d[k] = v: a held key keeps its place and takes the new value, a new key is
\* appended
SetItem(d, k, v) ==
  IF HasKey(d, k)
  THEN [i \in 1..Len(d) |-> IF d[i].k = k THEN Entry(k, v) ELSE d[i]]
  ELSE Append(d, Entry(k, v))

(***************************************************************************)
(* get_state_dict, lines 59-67.                                            *)
(***************************************************************************)

WrapperKeys == <<"model", "module", "state_dict">>

\* state_dict[w]: KeyError when the mapping lacks w, and a tensor cannot be
\* indexed by a string
Index(v, w) ==
  IF v.kind = "map" /\ HasKey(v.m, w)
  THEN [err |-> "none", val |-> Get(v.m, w)]
  ELSE [err |-> IF v.kind = "map" THEN "KeyError" ELSE "IndexError", val |-> NoVal]

\* one `if` with its test dropped: the scope is always narrowed
UnwrapStepUntested(saved, scope, w) == Index(scope, w)

\* one `if` of get_state_dict: the test is on saved_dict, the narrowing on
\* state_dict
UnwrapStep(saved, scope, w) ==
  IF HasKey(saved, w) THEN Index(scope, w) ELSE [err |-> "none", val |-> scope]

\* the three `if`s from step i on
RECURSIVE UnwrapFrom(_, _, _)
UnwrapFrom(saved, scope, i) ==
  IF i > Len(WrapperKeys) THEN [err |-> "none", val |-> scope]
  ELSE LET r == UnwrapStep(saved, scope, WrapperKeys[i])
       IN IF r.err # "none" THEN r ELSE UnwrapFrom(saved, r.val, i + 1)

GetStateDict(saved) == UnwrapFrom(saved, MapVal(saved), 1)

(***************************************************************************)
(* get_vae_config, lines 123-243: an if/elif chain over the variant name   *)
(* with no else branch.                                                    *)
(***************************************************************************)

\* the local variable `config` before any branch has assigned it
Unbound ==
  [ latent_channels |-> 0, block_out_channels |-> <<>>,
    encoder_layers_per_block |-> <<>>, decoder_layers_per_block |-> <<>> ]

\* the names each branch tests for, in the order of the chain
ConfigBranchNames ==
  << {"dc-ae-f32c32-sana-1.0"},
     {"dc-ae-f32c32-in-1.0", "dc-ae-f32c32-mix-1.0"},
     {"dc-ae-f128c512-in-1.0", "dc-ae-f128c512-mix-1.0"},
     {"dc-ae-f64c128-in-1.0", "dc-ae-f64c128-mix-1.0"} >>

\* the dict each branch assigns (the fields that tell the presets apart)
ConfigBranchValue ==
  << [ latent_channels |-> 32,
       block_out_channels |-> <<128, 256, 512, 512, 1024, 1024>>,
       encoder_layers_per_block |-> <<2, 2, 2, 3, 3, 3>>,
       decoder_layers_per_block |-> <<3, 3, 3, 3, 3, 3>> ],
     [ latent_channels |-> 32,
       block_out_channels |-> <<128, 256, 512, 512, 1024, 1024>>,
       encoder_layers_per_block |-> <<0, 4, 8, 2, 2, 2>>,
       decoder_layers_per_block |-> <<0, 5, 10, 2, 2, 2>> ],
     [ latent_channels |-> 512,
       block_out_channels |-> <<128, 256, 512, 512, 1024, 1024, 2048, 2048>>,
       encoder_layers_per_block |-> <<0, 4, 8, 2, 2, 2, 2, 2>>,
       decoder_layers_per_block |-> <<0, 5, 10, 2, 2, 2, 2, 2>> ],
     [ latent_channels |-> 128,
       block_out_channels |-> <<128, 256, 512, 512, 1024, 1024, 2048>>,
       encoder_layers_per_block |-> <<0, 4, 8, 2, 2, 2, 2>>,
       decoder_layers_per_block |-> <<0, 5, 10, 2, 2, 2, 2>> ] >>

NumBranches == Len(ConfigBranchNames)

(***************************************************************************)
(* Floating-point values of a tensor element: the finite values of         *)
(* magnitude up to MaxMag, the two infinities and NaN, with the IEEE 754   *)
(* rules for the special values; a finite result beyond MaxMag overflows   *)
(* to an infinity.                                                         *)
(***************************************************************************)

MaxMag == 1

Fin(n) == [c |-> "fin", v |-> n]
PInf == [c |-> "inf", v |-> 1]
NInf == [c |-> "inf", v |-> -1]
NaN == [c |-> "nan", v |-> 0]

Floats == { Fin(n) : n \in (-MaxMag)..MaxMag } \cup {PInf, NInf, NaN}

IsFinite(x) == x.c = "fin"

Sign(n) == IF n > 0 THEN 1 ELSE IF n < 0 THEN -1 ELSE 0

\* a finite result, rounded to an infinity when it is out of range
Round(n) == IF n > MaxMag THEN PInf ELSE IF n < -MaxMag THEN NInf ELSE Fin(n)

\* a * b
FMul(a, b) ==
  IF a.c = "nan" \/ b.c = "nan" THEN NaN
  ELSE IF a.c = "fin" /\ b.c = "fin" THEN Round(a.v * b.v)
  ELSE IF Sign(a.v) * Sign(b.v) = 0 THEN NaN
  ELSE IF Sign(a.v) * Sign(b.v) > 0 THEN PInf ELSE NInf

\* a + b
FAdd(a, b) ==
  IF a.c = "nan" \/ b.c = "nan" THEN NaN
  ELSE IF a.c = "fin" /\ b.c = "fin" THEN Round(a.v + b.v)
  ELSE IF a.c = "inf" /\ b.c = "inf" THEN (IF a.v = b.v THEN a ELSE NaN)
  ELSE IF a.c = "inf" THEN a ELSE b

(***************************************************************************)
(* Tensors of the transformer model.  A mask is a tensor of integer-valued *)
(* elements with a shape, or None; every other tensor is a term: the       *)
(* postfix list of the modules and inputs it was computed from.            *)
(***************************************************************************)

NoneMask == [none |-> TRUE, shape |-> <<>>, data |-> <<>>]
Tensor(shape, data) == [none |-> FALSE, shape |-> shape, data |-> data]

\* tensor.ndim
Ndim(t) == Len(t.shape)

\* the number of bits of a natural number
RECURSIVE BitLength(_)
BitLength(n) == IF n = 0 THEN 0 ELSE 1 + BitLength(n \div 2)

RECURSIVE Pow2(_)
Pow2(e) == IF e = 0 THEN 1 ELSE 2 * Pow2(e - 1)

\* the floating-point types hidden_states comes in
Dtypes == {"float32", "float16", "bfloat16"}

\* significand bits (the implicit leading bit included) of a torch dtype
Precision(t) ==
  CASE t = "float32" -> 24
    [] t = "float16" -> 11
    [] t = "bfloat16" -> 8

\* an integer value stored in dtype t: rounded to the nearest value with
\* Precision(t) significant bits, ties to even.  The magnitudes of the model
\* stay below the largest finite value of every dtype.
RoundTo(x, t) ==
  LET a == IF x < 0 THEN -x ELSE x
      e == BitLength(a) - Precision(t)
  IN IF e <= 0 THEN x
     ELSE LET q == a \div Pow2(e)
              r == a % Pow2(e)
              up == 2 * r > Pow2(e) \/ (2 * r = Pow2(e) /\ q % 2 = 1)
              m == (IF up THEN q + 1 ELSE q) * Pow2(e)
          IN IF x < 0 THEN -m ELSE m

\* tensor.to(dtype)
To(t, dt) == Tensor(t.shape, [i \in 1..Len(t.data) |-> RoundTo(t.data[i], dt)])

\* scalar - tensor, in the tensor's dtype
RSub(c, t, dt) == Tensor(t.shape, [i \in 1..Len(t.data) |-> RoundTo(c - t.data[i], dt)])

\* tensor * scalar, in the tensor's dtype
MulScalar(t, c, dt) == Tensor(t.shape, [i \in 1..Len(t.data) |-> RoundTo(t.data[i] * c, dt)])

\* tensor.unsqueeze(1)
Unsqueeze1(t) == Tensor(<<t.shape[1], 1>> \o Tail(t.shape), t.data)

\* the factor of line 380
DiscardBias == -10000

\* a conversion that multiplies exactly, whatever the dtype
MaskToBiasExact(mask, dt) ==
  IF ~mask.none /\ Ndim(mask) = 2
  THEN Unsqueeze1(Tensor(mask.shape,
                         [i \in 1..Len(mask.data) |-> (1 - mask.data[i]) * DiscardBias]))
  ELSE mask

\* lines 375-381 and 384-386: a 2-D mask becomes a bias with a singleton
\* query dimension, any other mask and None are left as they are
MaskToBias(mask, dt) ==
  IF ~mask.none /\ Ndim(mask) = 2
  THEN Unsqueeze1(MulScalar(RSub(1, To(mask, dt), dt), DiscardBias, dt))
  ELSE mask

\* terms
Token(f, n, i, m) == [f |-> f, n |-> n, i |-> i, m |-> m]
Leaf(name) == <<Token(name, 0, 0, NoneMask)>>
MaskLeaf(mask) == <<Token("mask", 0, 0, mask)>>
App1(f, i, a) == a \o <<Token(f, 1, i, NoneMask)>>
App2(f, i, a, b) == a \o b \o <<Token(f, 2, i, NoneMask)>>
App3(f, i, a, b, c) == a \o b \o c \o <<Token(f, 3, i, NoneMask)>>

(***************************************************************************)
(* SpecRename: the rename rules applied to one key, one rule per step, and *)
(* then applied once more to the key the first pass produced.              *)
(***************************************************************************)

MaxFrags == 3

KeyFrags ==
  { "a.", "norm.", "weight", "main.", "conv.", "proj.", "point_conv.",
    "decoder.project_out.0." }

RECURSIVE KeysOfLen(_)
KeysOfLen(n) ==
  IF n = 0 THEN {""}
  ELSE { f \o k : f \in KeyFrags, k \in KeysOfLen(n - 1) }

RenameInputs == UNION { KeysOfLen(n) : n \in 1..MaxFrags }

RenameIdle ==
  /\ r_key = ""
  /\ new_key = ""
  /\ ri = 0
  /\ pass = 0
  /\ first_key = ""

UnwrapIdle ==
  /\ u_saved = <<>>
  /\ u_scope = NoVal
  /\ u_step = 0
  /\ u_err = "none"
  /\ u_first = NoVal

ScriptIdle ==
  /\ pc = "idle"
  /\ args = [dtype |-> "none", vae_ckpt_path |-> "none"]
  /\ dtype = "none"
  /\ variant = "none"
  /\ saved_dict = <<>>
  /\ original_state_dict = NoVal
  /\ keys = <<>>
  /\ idx = 0
  /\ error = "none"
  /\ vae = "none"
  /\ output = "none"

ConfigIdle ==
  /\ c_name = ""
  /\ c_branch = 0
  /\ config = Unbound
  /\ c_result = Unbound
  /\ c_err = "none"

BlockIdle ==
  /\ b_pc = "idle"
  /\ has_attn2 = FALSE
  /\ scale_shift_table = [msa |-> Fin(0), mlp |-> Fin(0)]
  /\ timestep = [msa |-> Fin(0), mlp |-> Fin(0)]
  /\ gate_msa = Fin(0)
  /\ gate_mlp = Fin(0)
  /\ hidden_states = Fin(0)
  /\ attn_output = Fin(0)
  /\ ff_output = Fin(0)
  /\ b_err = "none"

ForwardIdle ==
  /\ f_pc = "idle"
  /\ f_call = "none"
  /\ f_dtype = "none"
  /\ f_cross = FALSE
  /\ f_args = [attention_mask |-> NoneMask, encoder_attention_mask |-> NoneMask]
  /\ f_attention_mask = NoneMask
  /\ f_encoder_attention_mask = NoneMask
  /\ f_hidden_states = <<>>
  /\ f_encoder_hidden_states = <<>>
  /\ f_timestep = <<>>
  /\ f_embedded_timestep = <<>>
  /\ f_block = 0
  /\ f_err = "none"
  /\ f_calls = <<>>

NoProcessor == [is_dict |-> FALSE, single |-> "none", dict |-> <<>>]

ProcIdle ==
  /\ p_pc = "idle"
  /\ p_layers = <<>>
  /\ p_before = <<>>
  /\ p_given = NoProcessor
  /\ p_processor = NoProcessor
  /\ p_count = 0
  /\ p_idx = 0
  /\ p_err = "none"

InitRename ==
  /\ r_key \in RenameInputs
  /\ new_key = r_key
  /\ ri = 1
  /\ pass = 1
  /\ first_key = ""
  /\ UnwrapIdle
  /\ ScriptIdle
  /\ ConfigIdle
  /\ BlockIdle
  /\ ForwardIdle
  /\ ProcIdle

\* line 110, one rule
RuleStep ==
  /\ ri <= NumRules
  /\ new_key' = ApplyRule(new_key, ri)
  /\ ri' = ri + 1
  /\ UNCHANGED <<r_key, pass, first_key, notRename>>

\* the rules are run again over the key the first run stored
Rerun ==
  /\ ri = NumRules + 1
  /\ pass = 1
  /\ first_key' = new_key
  /\ pass' = 2
  /\ ri' = 1
  /\ UNCHANGED <<r_key, new_key, notRename>>

NextRename == RuleStep \/ Rerun

SpecRename == InitRename /\ [][NextRename]_vars

\* C4: the rename of a key is the rules applied in table order, each rule
\* replacing every occurrence of its substring (the key grows or shrinks by the
\* rule's length difference once per occurrence); the "norm." rule doubles each
\* "norm." once, no later rule of the table matches inside "norm.norm." or
\* raises the number of "norm.norm." in the key, and "a.norm.weight" ends as
\* "a.norm.norm.weight".
C4_RenameInTableOrder ==
  [][ /\ (ri <= NumRules /\ ri' = ri + 1) =>
           LET old == VAE_KEYS_RENAME_DICT[ri][1]
               new == VAE_KEYS_RENAME_DICT[ri][2]
           IN /\ Len(new_key') = Len(new_key) + Count(new_key, old) * (Len(new) - Len(old))
              /\ ri = NormRule => Count(new_key', "norm.") = 2 * Count(new_key, "norm.")
              /\ ri > NormRule =>
                    /\ ~Contains("norm.norm.", old)
                    /\ Count(new_key', "norm.norm.") <= Count(new_key, "norm.norm.")
      /\ (ri' = NumRules + 1 /\ pass' = 1) =>
           /\ new_key' = RenameKey(r_key)
           /\ r_key = "a.norm.weight" => new_key' = "a.norm.norm.weight"
    ]_vars

\* C4 witness: the first pass over "a.norm.weight" has finished
C4_Witness ==
  /\ r_key = "a.norm.weight"
  /\ pass = 1
  /\ ri = NumRules + 1
  /\ new_key = "a.norm.norm.weight"

\* C6: a second run of the rules over a renamed key that holds "norm." gives a
\* different key, so the pass is not idempotent.
C6_RenameNotIdempotent ==
  (pass = 2 /\ ri = NumRules + 1 /\ Contains(first_key, "norm.")) => new_key # first_key

\* C6 witness: "a.norm.weight" renamed twice ends with four "norm."
C6_Witness ==
  /\ pass = 2
  /\ ri = NumRules + 1
  /\ first_key = "a.norm.norm.weight"
  /\ new_key = "a.norm.norm.norm.norm.weight"

(***************************************************************************)
(* SpecUnwrap: get_state_dict on one raw mapping, and then on its result.  *)
(***************************************************************************)

MaxWrap == 2

T1 == [id |-> 1, shape |-> "3x3"]
T2 == [id |-> 2, shape |-> "3x3"]
T3 == [id |-> 3, shape |-> "1x1"]

\* mappings with none of the wrapper keys
UnwrapLeafs ==
  { <<>>,
    <<Entry("encoder.project_in.conv.weight", TensorVal(T1))>>,
    <<Entry("a.weight", TensorVal(T1)), Entry("b.weight", TensorVal(T2))>> }

RECURSIVE WrapPathsOfLen(_)
WrapPathsOfLen(n) ==
  IF n = 0 THEN {<<>>}
  ELSE { <<WrapperKeys[i]>> \o q : i \in 1..Len(WrapperKeys), q \in WrapPathsOfLen(n - 1) }

WrapPaths == UNION { WrapPathsOfLen(n) : n \in 0..MaxWrap }

\* X nested under the wrapper keys of path, outermost first
RECURSIVE Nest(_, _)
Nest(path, X) ==
  IF path = <<>> THEN X
  ELSE <<Entry(Head(path), MapVal(Nest(Tail(path), X)))>>

Sibling == MapVal(<<Entry("c.weight", TensorVal(T3))>>)

\* the nested mappings, and each with one more wrapper key beside the outermost
UnwrapInputs ==
  { Nest(p, X) : p \in WrapPaths, X \in UnwrapLeafs }
  \cup
  { Append(Nest(pi[1], X), Entry(WrapperKeys[pi[2]], Sibling)) :
      pi \in { q \in WrapPaths \X (1..Len(WrapperKeys)) :
                 q[1] = <<>> \/ WrapperKeys[q[2]] # Head(q[1]) },
      X \in UnwrapLeafs }

LacksWrappers(d) == \A i \in 1..Len(WrapperKeys) : ~HasKey(d, WrapperKeys[i])

InitUnwrap ==
  /\ u_saved \in UnwrapInputs
  /\ u_scope = MapVal(u_saved)
  /\ u_step = 1
  /\ u_err = "none"
  /\ u_first = NoVal
  /\ RenameIdle
  /\ ScriptIdle
  /\ ConfigIdle
  /\ BlockIdle
  /\ ForwardIdle
  /\ ProcIdle

\* lines 61-66, one `if`
UnwrapIf ==
  /\ u_step \in 1..Len(WrapperKeys)
  /\ u_err = "none"
  /\ LET r == UnwrapStep(u_saved, u_scope, WrapperKeys[u_step])
     IN /\ u_err' = r.err
        /\ u_scope' = r.val
        /\ u_step' = IF r.err = "none" THEN u_step + 1 ELSE u_step
  /\ UNCHANGED <<u_saved, u_first, notUnwrap>>

\* get_state_dict is called on the mapping the first call returned
UnwrapAgain ==
  /\ u_step = Len(WrapperKeys) + 1
  /\ u_err = "none"
  /\ u_first = NoVal
  /\ u_scope.kind = "map"
  /\ u_first' = u_scope
  /\ u_saved' = u_scope.m
  /\ u_step' = 1
  /\ UNCHANGED <<u_scope, u_err, notUnwrap>>

NextUnwrap == UnwrapIf \/ UnwrapAgain

SpecUnwrap == InitUnwrap /\ [][NextUnwrap]_vars

UnwrapReturned == u_step = Len(WrapperKeys) + 1 /\ u_err = "none"

\* C2: {"model": {"module": X}} and {"model": {"module": {"state_dict": X}}}
\* are unwrapped to X when X has none of the wrapper keys.
C2_UnwrapsToInnermost ==
  \A X \in UnwrapLeafs :
    \A p \in { <<"model", "module">>, <<"model", "module", "state_dict">> } :
      (u_first = NoVal /\ u_saved = Nest(p, X) /\ (UnwrapReturned \/ u_err # "none"))
        => (u_err = "none" /\ u_scope = MapVal(X))

\* C3: a mapping with none of the wrapper keys is returned unchanged, and a
\* second call on a result with none of the wrapper keys returns that result.
C3_UnwrapIdempotent ==
  /\ LacksWrappers(u_saved) => u_err = "none"
  /\ (UnwrapReturned /\ LacksWrappers(u_saved)) => u_scope = MapVal(u_saved)
  /\ (UnwrapReturned /\ u_scope.kind = "map" /\ LacksWrappers(u_scope.m)) =>
        GetStateDict(u_scope.m) = [err |-> "none", val |-> u_scope]
  /\ (UnwrapReturned /\ u_first # NoVal /\ LacksWrappers(u_first.m)) => u_scope = u_first

\* C3 witness: the second call has returned the first call's result, which
\* was reached by unwrapping
C3_Witness ==
  /\ UnwrapReturned
  /\ u_first # NoVal
  /\ LacksWrappers(u_first.m)
  /\ u_first.m # <<>>
  /\ u_scope = u_first

(***************************************************************************)
(* Spec: the script. __main__ (lines 267-275) parses the flags, looks the  *)
(* dtype up, and converts and saves when a checkpoint path is given;       *)
(* convert_vae (lines 74-120) unwraps, renames, remaps and strict-loads.   *)
(***************************************************************************)

\* a handler that stores the tensor under the old key again
remap_qkv_NoRename(key, state_dict) ==
  SetItem(DelKey(state_dict, key), key, Get(state_dict, key))

\* line 21: state_dict[key.replace("qkv.conv", "to_qkv")] = state_dict.pop(key)
remap_qkv_(key, state_dict) ==
  SetItem(DelKey(state_dict, key), Replace(key, "qkv.conv", "to_qkv"), Get(state_dict, key))

\* the one pattern of VAE_SPECIAL_KEYS_REMAP, whose handler is remap_qkv_
VAE_SPECIAL_KEYS_REMAP == <<"qkv.conv.weight">>

\* the tensor stored under the new key with the old entry left in place
update_state_dict_KeepOld(state_dict, old_key, renamed) ==
  SetItem(state_dict, renamed, Get(state_dict, old_key))

\* line 71: state_dict[new_key] = state_dict.pop(old_key)
update_state_dict_(state_dict, old_key, renamed) ==
  SetItem(DelKey(state_dict, old_key), renamed, Get(state_dict, old_key))

\* lines 114-117 for one key: every pattern the key contains runs its handler
RECURSIVE SpecialFrom(_, _, _)
SpecialFrom(key, state_dict, i) ==
  IF i > Len(VAE_SPECIAL_KEYS_REMAP) THEN state_dict
  ELSE IF ~Contains(key, VAE_SPECIAL_KEYS_REMAP[i]) THEN SpecialFrom(key, state_dict, i + 1)
  ELSE SpecialFrom(key, remap_qkv_(key, state_dict), i + 1)

DTYPE_MAPPING ==
  [fp32 |-> "torch.float32", fp16 |-> "torch.float16", bf16 |-> "torch.bfloat16"]

VARIANT_MAPPING == [fp32 |-> "None", fp16 |-> "fp16", bf16 |-> "bf16"]

\* values of --dtype: the three names of DTYPE_MAPPING (fp32 the default) and
\* two others
DtypeFlags == {"fp32", "fp16", "bf16", "fp64", "float16"}

\* the parameters of the model convert_vae constructs, by name, with shapes
ExpectedParams ==
  << Entry("encoder.conv_in.weight", "3x3"), Entry("x.attn.to_qkv.weight", "3x3") >>

\* load_state_dict(state_dict, strict=True) succeeds: no missing key, no
\* unexpected key, every tensor of the parameter's shape
StrictLoadOk(state_dict) ==
  /\ KeySet(state_dict) = KeySet(ExpectedParams)
  /\ \A i \in 1..Len(state_dict) :
        /\ state_dict[i].v.kind = "tensor"
        /\ state_dict[i].v.t.shape = Get(ExpectedParams, state_dict[i].k)

MaxEntries == 2

LeafKeys ==
  { "encoder.project_in.conv.weight",
    "x.context_module.main.qkv.conv.weight",
    "x.attn.to_qkv.weight",
    "main.a.weight",
    "a.weight",
    "a.norm.weight" }

Shapes == {"3x3", "1x1"}

\* the flat checkpoints: up to MaxEntries entries with distinct keys, in file
\* order, the i-th holding tensor number i
RECURSIVE FlatOfLen(_)
FlatOfLen(n) ==
  IF n = 0 THEN {<<>>}
  ELSE { Append(d, Entry(k, TensorVal([id |-> n, shape |-> sh]))) :
           d \in FlatOfLen(n - 1), k \in LeafKeys, sh \in Shapes }

Flats ==
  { d \in UNION { FlatOfLen(n) : n \in 1..MaxEntries } : Cardinality(KeySet(d)) = Len(d) }

\* what load_file may return: a flat checkpoint, bare or under one wrapper key
CkptFiles ==
  Flats \cup { Nest(<<WrapperKeys[i]>>, d) : i \in 1..Len(WrapperKeys), d \in Flats }

Init ==
  /\ pc = "start"
  /\ args = [dtype |-> "none", vae_ckpt_path |-> "none"]
  /\ dtype = "none"
  /\ variant = "none"
  /\ saved_dict = <<>>
  /\ original_state_dict = NoVal
  /\ keys = <<>>
  /\ idx = 0
  /\ error = "none"
  /\ vae = "none"
  /\ output = "none"
  /\ RenameIdle
  /\ UnwrapIdle
  /\ ConfigIdle
  /\ BlockIdle
  /\ ForwardIdle
  /\ ProcIdle

\* get_args, lines 246-251: --dtype takes any string, --vae_ckpt_path is
\* optional
GetArgs ==
  /\ pc = "start"
  /\ \E d \in DtypeFlags, p \in {"ckpt.safetensors", "None"} :
       args' = [dtype |-> d, vae_ckpt_path |-> p]
  /\ pc' = "args"
  /\ UNCHANGED <<dtype, variant, saved_dict, original_state_dict, keys, idx, error, vae,
                 output, notScript>>

\* the lookups as dict.get would do them: no KeyError, dtype None
LookupDtypeLenient ==
  /\ pc = "args"
  /\ dtype' = IF args.dtype \in DOMAIN DTYPE_MAPPING THEN DTYPE_MAPPING[args.dtype] ELSE "None"
  /\ variant' = IF args.dtype \in DOMAIN VARIANT_MAPPING
                 THEN VARIANT_MAPPING[args.dtype] ELSE "None"
  /\ pc' = "dtype"
  /\ UNCHANGED <<args, saved_dict, original_state_dict, keys, idx, error, vae, output, notScript>>

\* lines 270-271: DTYPE_MAPPING[args.dtype], VARIANT_MAPPING[args.dtype]
LookupDtype ==
  /\ pc = "args"
  /\ IF args.dtype \in DOMAIN DTYPE_MAPPING
     THEN /\ dtype' = DTYPE_MAPPING[args.dtype]
          /\ variant' = VARIANT_MAPPING[args.dtype]
          /\ pc' = "dtype"
          /\ error' = error
     ELSE /\ error' = "KeyError"
          /\ pc' = "aborted"
          /\ UNCHANGED <<dtype, variant>>
  /\ UNCHANGED <<args, saved_dict, original_state_dict, keys, idx, vae, output, notScript>>

\* line 273: nothing is converted without a checkpoint path
NoCheckpoint ==
  /\ pc = "dtype"
  /\ args.vae_ckpt_path = "None"
  /\ pc' = "exit"
  /\ UNCHANGED <<args, dtype, variant, saved_dict, original_state_dict, keys, idx, error,
                 vae, output, notScript>>

\* lines 75-107: the file is loaded and unwrapped, the model is constructed,
\* and the keys of the mapping are listed for the rename loop
LoadAndUnwrap ==
  /\ pc = "dtype"
  /\ args.vae_ckpt_path # "None"
  /\ \E f \in CkptFiles :
       LET r == GetStateDict(f)
       IN /\ saved_dict' = f
          /\ IF r.err # "none"
             THEN /\ error' = r.err
                  /\ pc' = "aborted"
                  /\ UNCHANGED <<original_state_dict, keys, idx, vae>>
             ELSE IF r.val.kind # "map"
             THEN /\ error' = "AttributeError"
                  /\ pc' = "aborted"
                  /\ original_state_dict' = r.val
                  /\ vae' = "constructed"
                  /\ UNCHANGED <<keys, idx>>
             ELSE /\ original_state_dict' = r.val
                  /\ vae' = "constructed"
                  /\ keys' = Keys(r.val.m)
                  /\ idx' = 1
                  /\ pc' = "rename"
                  /\ error' = error
  /\ UNCHANGED <<args, dtype, variant, output, notScript>>

\* lines 108-111 for one key of the list
RenameStep ==
  /\ pc = "rename"
  /\ idx <= Len(keys)
  /\ original_state_dict' =
       MapVal(update_state_dict_(original_state_dict.m, keys[idx], RenameKey(keys[idx])))
  /\ idx' = idx + 1
  /\ UNCHANGED <<pc, args, dtype, variant, saved_dict, keys, error, vae, output, notScript>>

\* line 113: the keys are listed again for the special-key loop
RenameDone ==
  /\ pc = "rename"
  /\ idx > Len(keys)
  /\ keys' = Keys(original_state_dict.m)
  /\ idx' = 1
  /\ pc' = "special"
  /\ UNCHANGED <<args, dtype, variant, saved_dict, original_state_dict, error, vae, output, notScript>>

\* lines 114-117 for one key of the list
SpecialStep ==
  /\ pc = "special"
  /\ idx <= Len(keys)
  /\ original_state_dict' = MapVal(SpecialFrom(keys[idx], original_state_dict.m, 1))
  /\ idx' = idx + 1
  /\ UNCHANGED <<pc, args, dtype, variant, saved_dict, keys, error, vae, output, notScript>>

\* a load that reports mismatches without raising (strict=False)
LoadStateDictLenient ==
  /\ pc = "special"
  /\ idx > Len(keys)
  /\ vae' = IF StrictLoadOk(original_state_dict.m) THEN "loaded" ELSE "partly loaded"
  /\ pc' = "converted"
  /\ UNCHANGED <<args, dtype, variant, saved_dict, original_state_dict, keys, idx, error,
                 output, notScript>>

\* lines 119-120: vae.load_state_dict(original_state_dict, strict=True); return vae
LoadStateDict ==
  /\ pc = "special"
  /\ idx > Len(keys)
  /\ IF StrictLoadOk(original_state_dict.m)
     THEN /\ vae' = "loaded"
          /\ pc' = "converted"
          /\ error' = error
     ELSE /\ error' = "RuntimeError"
          /\ pc' = "aborted"
          /\ vae' = vae
  /\ UNCHANGED <<args, dtype, variant, saved_dict, original_state_dict, keys, idx, output, notScript>>

\* line 275: vae.save_pretrained(args.output_path, ..., variant=variant)
SavePretrained ==
  /\ pc = "converted"
  /\ output' = vae
  /\ pc' = "exit"
  /\ UNCHANGED <<args, dtype, variant, saved_dict, original_state_dict, keys, idx, error,
                 vae, notScript>>

Next ==
  \/ GetArgs
  \/ LookupDtype
  \/ NoCheckpoint
  \/ LoadAndUnwrap
  \/ RenameStep
  \/ RenameDone
  \/ SpecialStep
  \/ LoadStateDict
  \/ SavePretrained

Spec == Init /\ [][Next]_vars

\* the checkpoint {"model": {"encoder.project_in.conv.weight": T}}
C1_Inner(T) == <<Entry("encoder.project_in.conv.weight", TensorVal(T))>>

C1_Tensors == { [id |-> 1, shape |-> sh] : sh \in Shapes }

\* C1: on {"model": {"encoder.project_in.conv.weight": T}} get_state_dict
\* returns the inner mapping, and the rename pass leaves exactly the entry
\* "encoder.conv_in.weight" -> T.
C1_EndToEnd ==
  \A T \in C1_Tensors :
    saved_dict = Nest(<<"model">>, C1_Inner(T)) =>
      /\ error \notin {"KeyError", "IndexError", "AttributeError"}
      /\ (pc = "rename" /\ idx = 1) => original_state_dict = MapVal(C1_Inner(T))
      /\ (pc = "rename" /\ idx > Len(keys)) =>
            original_state_dict.m = <<Entry("encoder.conv_in.weight", TensorVal(T))>>
      /\ pc \in {"special", "aborted", "converted", "exit"} =>
            original_state_dict.m = <<Entry("encoder.conv_in.weight", TensorVal(T))>>

\* C1 witness: the rename pass has run over the unwrapped scenario checkpoint
C1_Witness ==
  /\ pc = "special"
  /\ \E T \in C1_Tensors :
       /\ saved_dict = Nest(<<"model">>, C1_Inner(T))
       /\ original_state_dict.m = <<Entry("encoder.conv_in.weight", TensorVal(T))>>

\* the special-key loop is at a key that holds "qkv.conv.weight" and steps
\* over it: remap_qkv_ runs on that entry
C5_HandlerRuns ==
  /\ pc = "special"
  /\ idx <= Len(keys)
  /\ idx' = idx + 1
  /\ Contains(keys[idx], "qkv.conv.weight")

\* C5 as stated: remap_qkv_ removes the entry, stores the identical tensor
\* under the key with "qkv.conv" replaced by "to_qkv", and the number of
\* entries of the mapping is unchanged.
C5_Original ==
  [][ C5_HandlerRuns =>
        LET k == keys[idx]
            nk == Replace(k, "qkv.conv", "to_qkv")
            d == original_state_dict.m
            e == original_state_dict'.m
        IN /\ ~HasKey(e, k)
           /\ HasKey(e, nk)
           /\ Get(e, nk) = Get(d, k)
           /\ Len(e) = Len(d)
    ]_vars

\* C5 amended: remap_qkv_ removes the entry and stores the identical tensor
\* under the renamed key, every other entry keeps its value, and the number of
\* entries is unchanged unless the mapping already held the renamed key, whose
\* entry is then overwritten and the number drops by one.
C5_RemapQkv ==
  [][ C5_HandlerRuns =>
        LET k == keys[idx]
            nk == Replace(k, "qkv.conv", "to_qkv")
            d == original_state_dict.m
            e == original_state_dict'.m
        IN /\ ~HasKey(e, k)
           /\ HasKey(e, nk)
           /\ Get(e, nk) = Get(d, k)
           /\ KeySet(e) = (KeySet(d) \ {k}) \cup {nk}
           /\ \A o \in KeySet(e) \ {nk} : Get(e, o) = Get(d, o)
           /\ Len(e) = IF HasKey(d, nk) THEN Len(d) - 1 ELSE Len(d)
    ]_vars

\* C5 witness: the handler ran on the first key of the list and overwrote an
\* entry the mapping already held under the renamed key
C5_Witness ==
  /\ pc = "special"
  /\ idx = 2
  /\ Contains(keys[1], "qkv.conv.weight")
  /\ HasKey(original_state_dict.m, Replace(keys[1], "qkv.conv", "to_qkv"))
  /\ ~HasKey(original_state_dict.m, keys[1])
  /\ Len(original_state_dict.m) = Len(keys) - 1

\* C7: the model is saved only after the strict load succeeded; when the
\* remapped mapping has an unexpected key, lacks a key or holds a tensor of
\* another shape, the run aborts with no model returned and nothing saved.
C7_NoPartialSuccess ==
  /\ output # "none" =>
        (vae = "loaded" /\ error = "none" /\ StrictLoadOk(original_state_dict.m))
  /\ pc = "converted" => (vae = "loaded" /\ StrictLoadOk(original_state_dict.m))
  /\ vae = "loaded" => StrictLoadOk(original_state_dict.m)
  /\ pc = "aborted" => (output = "none" /\ vae # "loaded" /\ error # "none")
  /\ (pc = "exit" /\ args.vae_ckpt_path # "None") => output = "loaded"
  /\ (pc \in {"converted", "exit", "aborted"} /\ original_state_dict.kind = "map"
        /\ error \in {"none", "RuntimeError"} /\ args.vae_ckpt_path # "None"
        /\ ~StrictLoadOk(original_state_dict.m))
       => (pc = "aborted" /\ error = "RuntimeError")

\* C7 witness: every expected key is there but a tensor has another shape,
\* and the run was aborted by the strict load
C7_Witness ==
  /\ pc = "aborted"
  /\ error = "RuntimeError"
  /\ KeySet(original_state_dict.m) = KeySet(ExpectedParams)
  /\ output = "none"

\* C8 as stated: get_args rejects a --dtype that is not fp32, fp16 or bf16,
\* so it never returns one.
C8_Original == pc # "start" => args.dtype \in DOMAIN DTYPE_MAPPING

\* C8 amended: get_args accepts any --dtype; a value that is not fp32, fp16 or
\* bf16 is fatal (KeyError) at the DTYPE_MAPPING lookup right after the
\* parsing, so no checkpoint is loaded, nothing is converted and nothing saved.
C8_UnknownDtypeFatal ==
  (pc # "start" /\ args.dtype \notin DOMAIN DTYPE_MAPPING) =>
    /\ pc \in {"args", "aborted"}
    /\ pc = "aborted" => error = "KeyError"
    /\ dtype = "none"
    /\ saved_dict = <<>>
    /\ original_state_dict = NoVal
    /\ vae = "none"
    /\ output = "none"

\* C8 witness: the run with --dtype fp64 and a checkpoint path has aborted at
\* the lookup
C8_Witness ==
  /\ pc = "aborted"
  /\ error = "KeyError"
  /\ args = [dtype |-> "fp64", vae_ckpt_path |-> "ckpt.safetensors"]
  /\ saved_dict = <<>>

(***************************************************************************)
(* SpecConfig: one call of get_vae_config.                                 *)
(***************************************************************************)

\* variant names: "dc-ae-<f>-<data>-<version>"
ConfigNames ==
  { "dc-ae-" \o f \o "-" \o d \o "-" \o v :
      f \in {"f32c32", "f64c128", "f128c512", "f16c8"},
      d \in {"in", "mix", "sana", "ft"},
      v \in {"1.0", "1.1"} }

InitConfig ==
  /\ c_name \in ConfigNames
  /\ c_branch = 1
  /\ config = Unbound
  /\ c_result = Unbound
  /\ c_err = "none"
  /\ RenameIdle
  /\ UnwrapIdle
  /\ ScriptIdle
  /\ BlockIdle
  /\ ForwardIdle
  /\ ProcIdle

\* one `if name in [...]` / `elif name in [...]`: the first branch whose list
\* holds the name assigns config and ends the chain
ConfigBranch ==
  /\ c_branch \in 1..NumBranches
  /\ IF c_name \in ConfigBranchNames[c_branch]
     THEN /\ config' = ConfigBranchValue[c_branch]
          /\ c_branch' = NumBranches + 1
     ELSE /\ config' = config
          /\ c_branch' = c_branch + 1
  /\ UNCHANGED <<c_name, c_result, c_err, notConfig>>

\* a return that falls back to the first preset when no branch matched
ConfigReturnDefault ==
  /\ c_branch = NumBranches + 1
  /\ c_result' = IF config = Unbound THEN ConfigBranchValue[1] ELSE config
  /\ c_branch' = NumBranches + 2
  /\ UNCHANGED <<c_name, config, c_err, notConfig>>

\* line 243, return config: UnboundLocalError when no branch assigned it
ConfigReturn ==
  /\ c_branch = NumBranches + 1
  /\ IF config = Unbound
     THEN c_err' = "UnboundLocalError" /\ c_result' = c_result
     ELSE c_result' = config /\ c_err' = c_err
  /\ c_branch' = NumBranches + 2
  /\ UNCHANGED <<c_name, config, notConfig>>

NextConfig == ConfigBranch \/ ConfigReturn

SpecConfig == InitConfig /\ [][NextConfig]_vars

\* the variant names the chain enumerates
C9_Enumerated ==
  { "dc-ae-f32c32-sana-1.0", "dc-ae-f32c32-in-1.0", "dc-ae-f32c32-mix-1.0",
    "dc-ae-f128c512-in-1.0", "dc-ae-f128c512-mix-1.0",
    "dc-ae-f64c128-in-1.0", "dc-ae-f64c128-mix-1.0" }

\* C9: get_vae_config returns a configuration exactly for the enumerated
\* names; for any other name no branch assigns config and the call fails
\* instead of returning a default or empty configuration.
C9_ConfigOnlyForEnumerated ==
  /\ (config # Unbound) => c_name \in C9_Enumerated
  /\ c_branch = NumBranches + 2 =>
        /\ c_name \in C9_Enumerated <=> c_err = "none"
        /\ c_name \in C9_Enumerated => (c_result = config /\ c_result.latent_channels > 0)
        /\ c_name \notin C9_Enumerated =>
              (c_err = "UnboundLocalError" /\ c_result = Unbound /\ config = Unbound)

\* C9 witness: a call with a name of the family that is not enumerated failed
C9_Witness ==
  /\ c_branch = NumBranches + 2
  /\ c_name = "dc-ae-f64c128-sana-1.0"
  /\ c_err = "UnboundLocalError"

(***************************************************************************)
(* SpecBlock: SanaTransformerBlock.forward on one element of the hidden    *)
(* state. attn1, attn2 and ff are other modules: their outputs are any     *)
(* float.                                                                  *)
(***************************************************************************)

\* the gate rows of scale_shift_table and the gate chunks of timestep
GateTableValues == {Fin(0), Fin(1)}
GateTimestepValues == {Fin(0), Fin(-1)}

InitBlock ==
  /\ b_pc = "modulation"
  /\ has_attn2 \in BOOLEAN
  /\ scale_shift_table \in [msa : GateTableValues, mlp : GateTableValues]
  /\ timestep \in [msa : GateTimestepValues, mlp : GateTimestepValues]
  /\ gate_msa = Fin(0)
  /\ gate_mlp = Fin(0)
  /\ hidden_states \in Floats
  /\ attn_output = Fin(0)
  /\ ff_output = Fin(0)
  /\ b_err = "none"
  /\ RenameIdle
  /\ UnwrapIdle
  /\ ScriptIdle
  /\ ConfigIdle
  /\ ForwardIdle
  /\ ProcIdle

\* lines 150-152: scale_shift_table[None] + timestep, chunked
Modulation ==
  /\ b_pc = "modulation"
  /\ gate_msa' = FAdd(scale_shift_table.msa, timestep.msa)
  /\ gate_mlp' = FAdd(scale_shift_table.mlp, timestep.mlp)
  /\ b_pc' = "self_attention"
  /\ UNCHANGED <<has_attn2, scale_shift_table, timestep, hidden_states, attn_output,
                 ff_output, b_err, notBlock>>

\* a residual add that drops the gate
GatedResidualUngated(h, gate, out) == FAdd(h, out)

\* hidden_states + gate * output, lines 159 and 175
GatedResidual(h, gate, out) == FAdd(h, FMul(gate, out))

\* lines 155-159
SelfAttention ==
  /\ b_pc = "self_attention"
  /\ \E out \in Floats :
       /\ attn_output' = out
       /\ hidden_states' = GatedResidual(hidden_states, gate_msa, out)
  /\ b_pc' = "cross_attention"
  /\ UNCHANGED <<has_attn2, scale_shift_table, timestep, gate_msa, gate_mlp, ff_output,
                 b_err, notBlock>>

\* lines 162-168: self.attn2 exists only when the block was constructed with
\* a cross_attention_dim; reading the missing attribute raises AttributeError
CrossAttention ==
  /\ b_pc = "cross_attention"
  /\ IF has_attn2
     THEN /\ \E out \in Floats :
               /\ attn_output' = out
               /\ hidden_states' = FAdd(out, hidden_states)
          /\ b_pc' = "feed_forward"
          /\ b_err' = b_err
     ELSE /\ b_err' = "AttributeError"
          /\ b_pc' = "raised"
          /\ UNCHANGED <<attn_output, hidden_states>>
  /\ UNCHANGED <<has_attn2, scale_shift_table, timestep, gate_msa, gate_mlp, ff_output,
                 notBlock>>

\* lines 171-177
FeedForward ==
  /\ b_pc = "feed_forward"
  /\ \E out \in Floats :
       /\ ff_output' = out
       /\ hidden_states' = GatedResidual(hidden_states, gate_mlp, out)
  /\ b_pc' = "returned"
  /\ UNCHANGED <<has_attn2, scale_shift_table, timestep, gate_msa, gate_mlp, attn_output,
                 b_err, notBlock>>

NextBlock == Modulation \/ SelfAttention \/ CrossAttention \/ FeedForward

SpecBlock == InitBlock /\ [][NextBlock]_vars

\* C10 as stated: with a zero gate the gated branch leaves the hidden state
\* as it was, for every value of the branch output.
C10_Original ==
  [][ /\ (b_pc = "self_attention" /\ b_pc' = "cross_attention" /\ gate_msa = Fin(0))
           => hidden_states' = hidden_states
      /\ (b_pc = "feed_forward" /\ b_pc' = "returned" /\ gate_mlp = Fin(0))
           => hidden_states' = hidden_states
    ]_vars

\* C10 amended: with a zero gate the gated branch leaves the hidden state as
\* it was for every finite value of the branch output; an infinite or NaN
\* branch output times the zero gate is NaN and makes the hidden state NaN.
C10_ZeroGate ==
  [][ /\ (b_pc = "self_attention" /\ b_pc' = "cross_attention" /\ gate_msa = Fin(0))
           => hidden_states' = IF IsFinite(attn_output') THEN hidden_states ELSE NaN
      /\ (b_pc = "feed_forward" /\ b_pc' = "returned" /\ gate_mlp = Fin(0))
           => hidden_states' = IF IsFinite(ff_output') THEN hidden_states ELSE NaN
    ]_vars

\* C10 witness: both gates are zero, both branch outputs are finite and not
\* zero, and the block has returned
C10_Witness ==
  /\ b_pc = "returned"
  /\ gate_msa = Fin(0)
  /\ gate_mlp = Fin(0)
  /\ scale_shift_table.msa = Fin(1)
  /\ ff_output = Fin(1)
  /\ hidden_states = Fin(-1)

(***************************************************************************)
(* A block constructed without cross-attention (cross_attention_dim=None). *)
(***************************************************************************)

\* C11: a block constructed with cross_attention_dim = None has no
\* cross-attention branch and its forward pass completes: after self-attention
\* it goes on to the feed-forward branch and returns, raising nothing.
C11_ForwardCompletesWithoutCrossAttention ==
  (~has_attn2 /\ b_pc \notin {"modulation", "self_attention", "cross_attention"})
    => (b_pc \in {"feed_forward", "returned"} /\ b_err = "none")

(***************************************************************************)
(* The rename pass of convert_vae over a whole mapping.                    *)
(***************************************************************************)

\* the mapping the rename pass starts from: what get_state_dict returned
RenamePassInput == GetStateDict(saved_dict).val.m

\* each input tensor sits under the renamed form of its own original key
EachUnderOwnRenamedKey ==
  \A i \in 1..Len(RenamePassInput) :
    /\ HasKey(original_state_dict.m, RenameKey(RenamePassInput[i].k))
    /\ Get(original_state_dict.m, RenameKey(RenamePassInput[i].k)) = RenamePassInput[i].v

\* C13 as stated: the rename pass loses no entry: after the pass the mapping
\* has as many entries as before it, and each input tensor is stored under the
\* renamed form of its own original key, collisions of renamed keys included.
C13_Original ==
  (pc = "special" /\ idx = 1) =>
    /\ Len(original_state_dict.m) = Len(RenamePassInput)
    /\ EachUnderOwnRenamedKey

\* two original keys rename to the same new key, or the renamed form of a key
\* equals another original key that comes later in the list
RenameCollides ==
  \E i, j \in 1..Len(RenamePassInput) :
    /\ i # j
    /\ \/ RenameKey(RenamePassInput[i].k) = RenameKey(RenamePassInput[j].k)
       \/ (i < j /\ RenameKey(RenamePassInput[i].k) = RenamePassInput[j].k)

\* C13 amended: without a collision the rename pass keeps the number of
\* entries and stores each input tensor under the renamed form of its own
\* key; with a collision the later write replaces an entry and the mapping
\* ends with fewer entries than it started with.
C13_RenamePass ==
  (pc = "special" /\ idx = 1) =>
    IF RenameCollides
    THEN Len(original_state_dict.m) < Len(RenamePassInput)
    ELSE /\ Len(original_state_dict.m) = Len(RenamePassInput)
         /\ EachUnderOwnRenamedKey

\* C13 witness: the pass has run over two entries whose keys both change and
\* do not collide
C13_Witness ==
  /\ pc = "special"
  /\ idx = 1
  /\ error = "none"
  /\ Len(RenamePassInput) = 2
  /\ ~RenameCollides
  /\ \A i \in 1..2 : RenameKey(RenamePassInput[i].k) # RenamePassInput[i].k
  /\ Len(original_state_dict.m) = 2

(***************************************************************************)
(* SpecForward: two calls of SanaTransformer2DModel.forward on one model,  *)
(* with the same arguments except attention_mask.                          *)
(***************************************************************************)

MaxTokens == 2
NumLayers == 2

\* keep/discard masks of shape [batch, key_tokens]
Masks2D ==
  UNION { { Tensor(<<1, k>>, d) : d \in [1..k -> {0, 1}] } : k \in 1..MaxTokens }

\* masks that are biases already, of shape [batch, 1, key_tokens]
Biases == { Tensor(<<1, 1, 1>>, <<v>>) : v \in {0, DiscardBias} }

MaskInputs == {NoneMask} \cup Masks2D \cup Biases

\* the state at the top of forward, for the arguments a
EnterForward(a) ==
  /\ f_pc' = "attention_mask"
  /\ f_args' = a
  /\ f_attention_mask' = a.attention_mask
  /\ f_encoder_attention_mask' = a.encoder_attention_mask
  /\ f_hidden_states' = Leaf("hidden_states")
  /\ f_encoder_hidden_states' = Leaf("encoder_hidden_states")
  /\ f_timestep' = Leaf("timestep")
  /\ f_embedded_timestep' = <<>>
  /\ f_block' = 0
  /\ f_err' = "none"

InitForward ==
  /\ f_pc = "attention_mask"
  /\ f_call = "first"
  /\ f_dtype \in Dtypes
  /\ f_cross \in BOOLEAN
  /\ f_args \in [attention_mask : MaskInputs, encoder_attention_mask : MaskInputs]
  /\ f_attention_mask = f_args.attention_mask
  /\ f_encoder_attention_mask = f_args.encoder_attention_mask
  /\ f_hidden_states = Leaf("hidden_states")
  /\ f_encoder_hidden_states = Leaf("encoder_hidden_states")
  /\ f_timestep = Leaf("timestep")
  /\ f_embedded_timestep = <<>>
  /\ f_block = 0
  /\ f_err = "none"
  /\ f_calls = <<>>
  /\ RenameIdle
  /\ UnwrapIdle
  /\ ScriptIdle
  /\ ConfigIdle
  /\ BlockIdle
  /\ ProcIdle

\* lines 375-381
ConvertAttentionMask ==
  /\ f_pc = "attention_mask"
  /\ f_attention_mask' = MaskToBias(f_attention_mask, f_dtype)
  /\ f_pc' = "encoder_attention_mask"
  /\ UNCHANGED <<f_call, f_dtype, f_cross, f_args, f_encoder_attention_mask, f_hidden_states,
                 f_encoder_hidden_states, f_timestep, f_embedded_timestep, f_block, f_err,
                 f_calls, notForward>>

\* lines 384-386
ConvertEncoderAttentionMask ==
  /\ f_pc = "encoder_attention_mask"
  /\ f_encoder_attention_mask' = MaskToBias(f_encoder_attention_mask, f_dtype)
  /\ f_pc' = "input"
  /\ UNCHANGED <<f_call, f_dtype, f_cross, f_args, f_attention_mask, f_hidden_states,
                 f_encoder_hidden_states, f_timestep, f_embedded_timestep, f_block, f_err,
                 f_calls, notForward>>

\* lines 389-401: patch embedding, timestep embedding, caption projection
\* and norm; batch size and dtype are those of hidden_states
Input ==
  /\ f_pc = "input"
  /\ f_hidden_states' = App1("pos_embed", 0, f_hidden_states)
  /\ f_timestep' = App1("adaln_single.timestep", 0, f_timestep)
  /\ f_embedded_timestep' = App1("adaln_single.embedded_timestep", 0, f_timestep)
  /\ f_encoder_hidden_states' =
       App1("caption_norm", 0,
            App1("view", 0, App1("caption_projection", 0, f_encoder_hidden_states)))
  /\ f_block' = 1
  /\ f_pc' = "blocks"
  /\ UNCHANGED <<f_call, f_dtype, f_cross, f_args, f_attention_mask,
                 f_encoder_attention_mask, f_err, f_calls, notForward>>

\* a self-attention branch that hands the mask to attn1
SelfAttentionBranchMasked(h, mask, t, l) ==
  App3("self_attention", l, h, MaskLeaf(mask), t)

\* lines 150-159 of block l: the modulation of table and timestep, norm1,
\* attn1 on the modulated hidden state alone, the gated residual
SelfAttentionBranch(h, mask, t, l) == App2("self_attention", l, h, t)

\* lines 163-168 of block l: attn2 on the hidden state, the encoder hidden
\* states and the encoder mask, the residual
CrossAttentionBranch(h, enc, enc_mask, l) ==
  App3("cross_attention", l, h, enc, MaskLeaf(enc_mask))

\* lines 171-175 of block l: norm2, modulation, the feed-forward, the gated
\* residual
FeedForwardBranch(h, t, l) == App2("feed_forward", l, h, t)

\* SanaTransformerBlock.forward of block l, constructed with cross-attention
BlockForward(h, mask, enc, enc_mask, t, l) ==
  FeedForwardBranch(
    CrossAttentionBranch(SelfAttentionBranch(h, mask, t, l), enc, enc_mask, l), t, l)

\* the record of a finished call
Call(a, sample, err) ==
  [attention_mask |-> a.attention_mask,
   encoder_attention_mask |-> a.encoder_attention_mask,
   sample |-> sample, err |-> err]

\* lines 414-422 for one block; a block constructed without cross-attention
\* raises AttributeError at line 162
RunBlock ==
  /\ f_pc = "blocks"
  /\ f_block <= NumLayers
  /\ IF f_cross
     THEN /\ f_hidden_states' =
               BlockForward(f_hidden_states, f_attention_mask, f_encoder_hidden_states,
                            f_encoder_attention_mask, f_timestep, f_block)
          /\ f_block' = f_block + 1
          /\ UNCHANGED <<f_pc, f_err, f_calls>>
     ELSE /\ f_err' = "AttributeError"
          /\ f_pc' = "raised"
          /\ f_calls' = Append(f_calls, Call(f_args, <<>>, "AttributeError"))
          /\ UNCHANGED <<f_hidden_states, f_block>>
  /\ UNCHANGED <<f_call, f_dtype, f_cross, f_args, f_attention_mask,
                 f_encoder_attention_mask, f_encoder_hidden_states, f_timestep,
                 f_embedded_timestep, notForward>>

\* lines 425-446: norm_out, modulation by the embedded timestep, proj_out,
\* unpatchify
Output ==
  /\ f_pc = "blocks"
  /\ f_block > NumLayers
  /\ f_hidden_states' =
       App1("unpatchify", 0,
            App1("proj_out", 0,
                 App2("modulate", 0, App1("norm_out", 0, f_hidden_states),
                      f_embedded_timestep)))
  /\ f_pc' = "output"
  /\ UNCHANGED <<f_call, f_dtype, f_cross, f_args, f_attention_mask,
                 f_encoder_attention_mask, f_encoder_hidden_states, f_timestep,
                 f_embedded_timestep, f_block, f_err, f_calls, notForward>>

\* lines 448-449
Return ==
  /\ f_pc = "output"
  /\ f_calls' = Append(f_calls, Call(f_args, f_hidden_states, "none"))
  /\ f_pc' = "returned"
  /\ UNCHANGED <<f_call, f_dtype, f_cross, f_args, f_attention_mask,
                 f_encoder_attention_mask, f_hidden_states, f_encoder_hidden_states,
                 f_timestep, f_embedded_timestep, f_block, f_err, notForward>>

\* the second call: the same model and arguments, another attention_mask
CallAgain ==
  /\ f_pc \in {"returned", "raised"}
  /\ f_call = "first"
  /\ f_call' = "second"
  /\ \E mask \in MaskInputs :
       EnterForward([f_args EXCEPT !.attention_mask = mask])
  /\ UNCHANGED <<f_dtype, f_cross, f_calls, notForward>>

NextForward ==
  \/ ConvertAttentionMask
  \/ ConvertEncoderAttentionMask
  \/ Input
  \/ RunBlock
  \/ Output
  \/ Return
  \/ CallAgain

SpecForward == InitForward /\ [][NextForward]_vars

\* bias is what the conversion makes of the mask given: a 2-D mask gets a
\* singleton query dimension, 1 becomes 0 and 0 becomes discard; any other
\* mask, and None, is the mask given
ConvertedAs(given, bias, discard) ==
  IF ~given.none /\ Ndim(given) = 2
  THEN /\ ~bias.none
       /\ bias.shape = <<given.shape[1], 1, given.shape[2]>>
       /\ Len(bias.data) = Len(given.data)
       /\ \A i \in 1..Len(given.data) :
            /\ given.data[i] = 1 => bias.data[i] = 0
            /\ given.data[i] = 0 => bias.data[i] = discard
  ELSE bias = given

\* both conversions are done; no block has run yet when f_pc = "input"
MasksConverted == f_pc \in {"input", "blocks", "output", "returned", "raised"}

DiscardIn(t) == IF t = "bfloat16" THEN -9984 ELSE -10000

C14_AttentionMaskIgnored ==
  Len(f_calls) = 2 =>
    /\ f_calls[1].sample = f_calls[2].sample
    /\ f_calls[1].err = f_calls[2].err

\* C14 witness: two calls have returned, one with a mask that discards a
\* token and one with a mask that keeps every token
C14_Witness ==
  /\ Len(f_calls) = 2
  /\ f_cross
  /\ f_calls[1].err = "none"
  /\ f_calls[1].attention_mask = Tensor(<<1, 2>>, <<1, 0>>)
  /\ f_calls[2].attention_mask = Tensor(<<1, 2>>, <<1, 1>>)
  /\ f_calls[1].encoder_attention_mask = f_calls[2].encoder_attention_mask
  /\ f_calls[1].sample # <<>>

(***************************************************************************)
(* SpecProc: one call of SanaTransformer2DModel.set_attn_processor.  The   *)
(* attention layers are the attn1 (and attn2) of each transformer block,   *)
(* in the order named_children visits them.                                *)
(***************************************************************************)

\* str(i) for a block index
IndexName(i) == SubSeq("0123456789", i + 1, i + 1)

\* f"{name}.processor" for attention layer attn of block i
ProcessorName(i, attn) == "transformer_blocks." \o IndexName(i) \o "." \o attn \o ".processor"

\* the attention layers of blocks i..NumLayers-1 with the processors their
\* constructor gives them (lines 105-127)
RECURSIVE LayersFrom(_, _)
LayersFrom(i, cross) ==
  IF i >= NumLayers THEN <<>>
  ELSE <<Entry(ProcessorName(i, "attn1"), "SanaLinearAttnProcessor2_0")>>
       \o (IF cross THEN <<Entry(ProcessorName(i, "attn2"), "AttnProcessor2_0")>> ELSE <<>>)
       \o LayersFrom(i + 1, cross)

\* the property attn_processors: name -> processor of every attention layer
attn_processors(layers) == layers

Processors == {"SanaLinearAttnProcessor2_0", "AttnProcessor2_0", "CustomProcessor"}

\* the keys a dict argument may hold: the layers' names and a foreign one
KeyPool == Keys(LayersFrom(0, TRUE)) \o <<"other.processor">>

\* the dict that holds processor proc under the keys of the pool that are in K
DictOf(K, proc) ==
  LET held == SelectSeq(KeyPool, LAMBDA k : k \in K)
  IN [i \in 1..Len(held) |-> Entry(held[i], proc)]

ProcessorInputs ==
  { [is_dict |-> FALSE, single |-> proc, dict |-> <<>>] : proc \in Processors }
  \cup { [is_dict |-> TRUE, single |-> "none", dict |-> DictOf(K, proc)] :
           K \in SUBSET { KeyPool[i] : i \in 1..Len(KeyPool) },
           proc \in Processors }

InitProc ==
  /\ p_pc = "count"
  /\ p_layers \in {LayersFrom(0, TRUE), LayersFrom(0, FALSE)}
  /\ p_before = p_layers
  /\ p_given \in ProcessorInputs
  /\ p_processor = p_given
  /\ p_count = 0
  /\ p_idx = 1
  /\ p_err = "none"
  /\ RenameIdle
  /\ UnwrapIdle
  /\ ScriptIdle
  /\ ConfigIdle
  /\ BlockIdle
  /\ ForwardIdle

\* a check that lets every dict through
SizeMismatchNever(processor, count) == FALSE

\* line 337: isinstance(processor, dict) and len(processor) != count
SizeMismatch(processor, count) == processor.is_dict /\ Len(processor.dict) # count

\* lines 335-341
CheckCount ==
  /\ p_pc = "count"
  /\ p_count' = Len(attn_processors(p_layers))
  /\ IF SizeMismatch(p_processor, p_count')
     THEN /\ p_err' = "ValueError"
          /\ p_pc' = "raised"
     ELSE /\ p_err' = p_err
          /\ p_pc' = "set"
  /\ UNCHANGED <<p_layers, p_before, p_given, p_processor, p_idx, notProc>>

\* lines 343-354 for one attention layer: set_processor with the processor
\* given, or with the one popped from the dict under the layer's name
SetProcessor ==
  /\ p_pc = "set"
  /\ p_idx <= Len(p_layers)
  /\ LET name == p_layers[p_idx].k
     IN IF ~p_processor.is_dict
        THEN /\ p_layers' = SetItem(p_layers, name, p_processor.single)
             /\ p_idx' = p_idx + 1
             /\ UNCHANGED <<p_processor, p_pc, p_err>>
        ELSE IF HasKey(p_processor.dict, name)
        THEN /\ p_layers' = SetItem(p_layers, name, Get(p_processor.dict, name))
             /\ p_processor' = [p_processor EXCEPT !.dict = DelKey(p_processor.dict, name)]
             /\ p_idx' = p_idx + 1
             /\ UNCHANGED <<p_pc, p_err>>
        ELSE /\ p_err' = "KeyError"
             /\ p_pc' = "raised"
             /\ UNCHANGED <<p_layers, p_processor, p_idx>>
  /\ UNCHANGED <<p_before, p_given, p_count, notProc>>

\* line 354: the loop over the children has ended
SetDone ==
  /\ p_pc = "set"
  /\ p_idx > Len(p_layers)
  /\ p_pc' = "returned"
  /\ UNCHANGED <<p_layers, p_before, p_given, p_processor, p_count, p_idx, p_err, notProc>>

NextProc == CheckCount \/ SetProcessor \/ SetDone

SpecProc == InitProc /\ [][NextProc]_vars

\* C15: given a dict whose number of entries differs from the number of
\* attention layers, set_attn_processor raises ValueError and every layer
\* keeps the processor it had; given a single processor, every attention
\* layer has that processor once the call has returned.
C15_AllOrNothing ==
  /\ (p_given.is_dict /\ Len(p_given.dict) # Len(p_before)) =>
        /\ p_layers = p_before
        /\ p_pc \in {"count", "raised"}
        /\ p_pc = "raised" => p_err = "ValueError"
  /\ (~p_given.is_dict /\ p_pc \notin {"count", "set"}) =>
        /\ p_pc = "returned"
        /\ \A i \in 1..Len(p_layers) : p_layers[i].v = p_given.single
        /\ Keys(p_layers) = Keys(p_before)

\* C15 witness: a dict that holds a custom processor for the first layer
\* only was refused
C15_Witness ==
  /\ p_pc = "raised"
  /\ p_err = "ValueError"
  /\ p_given.is_dict
  /\ p_given.dict = <<Entry(ProcessorName(0, "attn1"), "CustomProcessor")>>
  /\ Len(p_layers) > 1
  /\ p_layers = p_before

====
